---- MODULE Spec2Model ----
(***************************************************************************)
(* Model of the two serializers of the notebook                            *)
(* "Retrieving text with the SQE API": the plain-text serializer           *)
(* readFragments / readLines / readSigns and the loop that builds          *)
(* simplifiedTextObject.                                                   *)
(*                                                                         *)
(* A Python string is modelled as a sequence of one-character strings, so  *)
(* that string concatenation is \o and the empty string is << >>.  A       *)
(* Python list is a sequence, a Python dict is a function whose DOMAIN is  *)
(* the set of its keys.                                                    *)
(***************************************************************************)
EXTENDS Integers, Sequences, FiniteSets, TLC

VARIABLES text, printed, simplifiedTextObject, pc

vars == <<text, printed, simplifiedTextObject, pc>>

(***************************************************************************)
(* Attribute-value ids the serializers test.                               *)
(***************************************************************************)
LETTER == 1
SPACE == 2
IS_RECONSTRUCTED == 20

(* The value of a name no cell has assigned yet. *)
None == "None"

(***************************************************************************)
(* Bounds of the input documents.                                          *)
(***************************************************************************)
MaxInterps == 3
MaxFragments == 2
MaxLines == 2
MaxNodes == 3

(***************************************************************************)
(* Python helpers.                                                         *)
(***************************************************************************)
(* x in s, for a list s *)
In(x, s) == \E i \in DOMAIN s : s[i] = x

(* list(map(lambda x: x['attributeValueId'], signInterpretation['attributes'])) *)
AttributeIds(signInterpretation) ==
    [i \in DOMAIN signInterpretation.attributes |->
        signInterpretation.attributes[i].attributeValueId]

(***************************************************************************)
(* readSigns: the body of the inner loop, applied to one interpretation.   *)
(***************************************************************************)
(* variant: the LETTER test is made before the test of id 20 *)
ReadSignsStepLetterFirst(formattedString, signInterpretation) ==
    LET attributes == AttributeIds(signInterpretation) IN
    IF In(LETTER, attributes)
    THEN formattedString \o signInterpretation.character
    ELSE IF (~In(IS_RECONSTRUCTED, attributes)) /\ In(SPACE, attributes)
         THEN formattedString \o <<" ">>
         ELSE formattedString

(* variant: the SPACE test is made before the LETTER test *)
ReadSignsStepSpaceFirst(formattedString, signInterpretation) ==
    LET attributes == AttributeIds(signInterpretation) IN
    IF ~In(IS_RECONSTRUCTED, attributes)
    THEN IF In(SPACE, attributes)
         THEN formattedString \o <<" ">>
         ELSE IF In(LETTER, attributes)
              THEN formattedString \o signInterpretation.character
              ELSE formattedString
    ELSE formattedString

(* variant: the attribute list is compared with [1] and [2] instead of *)
(* being searched *)
ReadSignsStepSingleAttribute(formattedString, signInterpretation) ==
    LET attributes == AttributeIds(signInterpretation) IN
    IF ~In(IS_RECONSTRUCTED, attributes)
    THEN IF attributes = <<LETTER>>
         THEN formattedString \o signInterpretation.character
         ELSE IF attributes = <<SPACE>>
              THEN formattedString \o <<" ">>
              ELSE formattedString
    ELSE formattedString

(* variant: an interpretation that names itself as next is skipped *)
ReadSignsStepRejectSelfReference(formattedString, signInterpretation) ==
    LET attributes == AttributeIds(signInterpretation) IN
    IF In(signInterpretation.signInterpretationId,
          signInterpretation.nextSignInterpretations)
    THEN formattedString
    ELSE IF ~In(IS_RECONSTRUCTED, attributes)
         THEN IF In(LETTER, attributes)
              THEN formattedString \o signInterpretation.character
              ELSE IF In(SPACE, attributes)
                   THEN formattedString \o <<" ">>
                   ELSE formattedString
         ELSE formattedString

ReadSignsStep(formattedString, signInterpretation) ==
    LET attributes == AttributeIds(signInterpretation) IN
    IF ~In(IS_RECONSTRUCTED, attributes)
    THEN IF In(LETTER, attributes)
         THEN formattedString \o signInterpretation.character
         ELSE IF In(SPACE, attributes)
              THEN formattedString \o <<" ">>
              ELSE formattedString
    ELSE formattedString

(* for signInterpretation in signs['signInterpretations'] *)
RECURSIVE ReadSignInterpretations(_, _, _)
ReadSignInterpretations(signInterpretations, i, formattedString) ==
    IF i > Len(signInterpretations)
    THEN formattedString
    ELSE ReadSignInterpretations(signInterpretations, i + 1,
             ReadSignsStep(formattedString, signInterpretations[i]))

(* for signs in line['signs'] *)
RECURSIVE ReadSignsLoop(_, _, _)
ReadSignsLoop(signs, i, formattedString) ==
    IF i > Len(signs)
    THEN formattedString
    ELSE ReadSignsLoop(signs, i + 1,
             ReadSignInterpretations(signs[i].signInterpretations, 1, formattedString))

readSigns(line, formattedString) == ReadSignsLoop(line.signs, 1, formattedString)

(***************************************************************************)
(* readLines and readFragments.                                            *)
(***************************************************************************)
(* f"line {line['lineName']}:\n" *)
LineHeader(line) ==
    <<"l", "i", "n", "e", " ">> \o line.lineName \o <<":", "\n">>

(* f"\nText fragment {textFragment['textFragmentName']}:\n" *)
FragmentHeader(textFragment) ==
    <<"\n", "T", "e", "x", "t", " ", "f", "r", "a", "g", "m", "e", "n", "t", " ">>
        \o textFragment.textFragmentName \o <<":", "\n">>

(* the body of the loop of readLines, applied to one line *)
(* variant: no "\n" after the signs of the line *)
ReadLinesStepNoSeparator(line, formattedString) ==
    readSigns(line, formattedString \o LineHeader(line))

ReadLinesStep(line, formattedString) ==
    readSigns(line, formattedString \o LineHeader(line)) \o <<"\n">>

(* for line in textFragment['lines'] *)
RECURSIVE ReadLinesLoop(_, _, _)
ReadLinesLoop(lines, i, formattedString) ==
    IF i > Len(lines)
    THEN formattedString
    ELSE ReadLinesLoop(lines, i + 1, ReadLinesStep(lines[i], formattedString))

readLines(textFragment, formattedString) ==
    ReadLinesLoop(textFragment.lines, 1, formattedString)

(* for textFragment in text['textFragments'] *)
RECURSIVE ReadFragmentsLoop(_, _, _)
ReadFragmentsLoop(textFragments, i, formattedString) ==
    IF i > Len(textFragments)
    THEN formattedString
    ELSE ReadFragmentsLoop(textFragments, i + 1,
             readLines(textFragments[i],
                       formattedString \o FragmentHeader(textFragments[i])))

readFragments(t) == ReadFragmentsLoop(t.textFragments, 1, << >>)

(***************************************************************************)
(* The loop that builds simplifiedTextObject.                              *)
(***************************************************************************)
(* the body of the innermost loop: what one interpretation does to the     *)
(* list lineObject[line['lineName']]                                       *)
(* variant: an interpretation that is filtered away appends "" *)
LineObjectStepKeepPosition(list, signInterpretation) ==
    LET attributes == AttributeIds(signInterpretation) IN
    IF ~In(IS_RECONSTRUCTED, attributes)
    THEN IF In(LETTER, attributes)
         THEN Append(list, signInterpretation.character)
         ELSE IF In(SPACE, attributes)
              THEN Append(list, <<" ">>)
              ELSE Append(list, << >>)
    ELSE Append(list, << >>)

(* variant: a SPACE appends its character instead of " " *)
LineObjectStepSpaceAsCharacter(list, signInterpretation) ==
    LET attributes == AttributeIds(signInterpretation) IN
    IF ~In(IS_RECONSTRUCTED, attributes)
    THEN IF In(LETTER, attributes)
         THEN Append(list, signInterpretation.character)
         ELSE IF In(SPACE, attributes)
              THEN Append(list, signInterpretation.character)
              ELSE list
    ELSE list

LineObjectStep(list, signInterpretation) ==
    LET attributes == AttributeIds(signInterpretation) IN
    IF ~In(IS_RECONSTRUCTED, attributes)
    THEN IF In(LETTER, attributes)
         THEN Append(list, signInterpretation.character)
         ELSE IF In(SPACE, attributes)
              THEN Append(list, <<" ">>)
              ELSE list
    ELSE list

(* for signInterpretation in sign['signInterpretations'] *)
RECURSIVE LineObjectInterpretationsFirstOnly(_, _, _)
(* variant: only the first interpretation of a Sign is read *)
LineObjectInterpretationsFirstOnly(signInterpretations, i, list) ==
    IF i > Len(signInterpretations) \/ i > 1
    THEN list
    ELSE LineObjectInterpretationsFirstOnly(signInterpretations, i + 1,
             LineObjectStep(list, signInterpretations[i]))

RECURSIVE LineObjectInterpretations(_, _, _)
LineObjectInterpretations(signInterpretations, i, list) ==
    IF i > Len(signInterpretations)
    THEN list
    ELSE LineObjectInterpretations(signInterpretations, i + 1,
             LineObjectStep(list, signInterpretations[i]))

(* for sign in line['signs'] *)
RECURSIVE LineObjectSigns(_, _, _)
LineObjectSigns(signs, i, list) ==
    IF i > Len(signs)
    THEN list
    ELSE LineObjectSigns(signs, i + 1,
             LineObjectInterpretations(signs[i].signInterpretations, 1, list))

(* lineObject = {}; lineObject[line['lineName']] = []; ...the sign loops   *)
LineObject(line) ==
    [k \in {line.lineName} |-> LineObjectSigns(line.signs, 1, << >>)]

(* for line in textFragment['lines']: ...append(lineObject) *)
RECURSIVE LineObjects(_, _, _)
LineObjects(lines, i, list) ==
    IF i > Len(lines)
    THEN list
    ELSE LineObjects(lines, i + 1, Append(list, LineObject(lines[i])))

(* simplifiedTextObject[name] = [] followed by the appends of the line     *)
(* loop: an assignment to a dict key adds the key or replaces its value    *)
SetItem(dict, key, value) ==
    [k \in (DOMAIN dict) \cup {key} |-> IF k = key THEN value ELSE dict[k]]

(* for textFragment in text['textFragments'] *)
RECURSIVE SimplifiedLoop(_, _, _)
SimplifiedLoop(textFragments, i, dict) ==
    IF i > Len(textFragments)
    THEN dict
    ELSE SimplifiedLoop(textFragments, i + 1,
             SetItem(dict, textFragments[i].textFragmentName,
                     LineObjects(textFragments[i].lines, 1, << >>)))

(* simplifiedTextObject = {} and the loop over text['textFragments'] *)
SimplifiedTextObject(t) == SimplifiedLoop(t.textFragments, 1, << >>)

(***************************************************************************)
(* Input documents: the parsed JSON of                                     *)
(* GET editions/{editionId}/text-fragments/{textFragmentId}.               *)
(***************************************************************************)
Attr(id) == [attributeValueId |-> id]

(* Kinds of sign interpretation: character and attribute list. *)
Palette ==
    << [character |-> <<"k">>, attributes |-> <<Attr(1)>>],
       [character |-> << >>,   attributes |-> <<Attr(2)>>],
       [character |-> <<"l">>, attributes |-> <<Attr(1), Attr(20)>>],
       [character |-> << >>,   attributes |-> <<Attr(20), Attr(2)>>],
       [character |-> << >>,   attributes |-> <<Attr(5)>>],
       [character |-> <<"m">>, attributes |-> <<Attr(18), Attr(2), Attr(1)>>],
       [character |-> <<"x">>, attributes |-> <<Attr(2), Attr(99)>>] >>

(* An interpretation of kind k, with identifier id and next references nxt *)
Interp(k, id, nxt) ==
    [signInterpretationId |-> id,
     character |-> Palette[k].character,
     attributes |-> Palette[k].attributes,
     nextSignInterpretations |-> nxt]

(* The signs of a line whose interpretations have the kinds ks[1..n] and   *)
(* where cut[i] says that interpretation i+1 opens a new sign.             *)
RECURSIVE Group(_, _, _, _)
Group(ks, cut, i, signs) ==
    IF i > Len(ks)
    THEN signs
    ELSE LET si == Interp(ks[i], i, IF i < Len(ks) THEN <<i + 1>> ELSE << >>) IN
         IF i = 1 \/ cut[i - 1]
         THEN Group(ks, cut, i + 1, Append(signs, [signInterpretations |-> <<si>>]))
         ELSE Group(ks, cut, i + 1,
                  [signs EXCEPT ![Len(signs)] =
                      [signInterpretations |-> Append(@.signInterpretations, si)]])

ColI == <<"C", "o", "l", ".", " ", "I">>
ColII == <<"C", "o", "l", ".", " ", "I", "I">>

MkLine(name, signs) == [lineName |-> name, signs |-> signs]
MkFragment(name, lines) == [textFragmentName |-> name, lines |-> lines]
MkText(textFragments) == [textFragments |-> textFragments]

(* One fragment with one line of n <= MaxInterps interpretations: their    *)
(* kinds run through the palette from `first` in steps of `stride`, and    *)
(* every Sign holds `width` of them (the last Sign the rest).              *)
Kinds(first, stride, n) ==
    [i \in 1..n |-> ((first - 1 + (i - 1) * stride) % Len(Palette)) + 1]

Cuts(width, n) == [i \in 1..(n - 1) |-> i % width = 0]

LineDocs ==
    { MkText(<<MkFragment(<<"1">>,
                 <<MkLine(ColI, Group(Kinds(x[1], x[2], x[3]), Cuts(x[4], x[3]), 1, << >>))>>)>>) :
        x \in (1..Len(Palette)) \X {0, 1, 2} \X (0..MaxInterps) \X (1..MaxInterps) }

(* Up to MaxFragments fragments of up to MaxLines lines; the lines of a    *)
(* fragment alternate between "Col. I" (a letter, a space and a            *)
(* reconstructed letter, one Sign each) and "Col. II" (no Sign).           *)
SomeLines(first, n) ==
    [l \in 1..n |->
        IF (l + first) % 2 = 1
        THEN MkLine(ColI, Group(<<1, 2, 3>>, <<TRUE, TRUE>>, 1, << >>))
        ELSE MkLine(ColII, << >>)]

(* n fragments, all named "1" or named "1" and "2" in turn; the fragments  *)
(* at odd positions hold k lines, those at even positions j lines.         *)
StructureDocs ==
    { MkText([f \in 1..x[1] |->
                MkFragment(IF x[2] \/ f % 2 = 1 THEN <<"1">> ELSE <<"2">>,
                           IF f % 2 = 1 THEN SomeLines(0, x[3]) ELSE SomeLines(1, x[4]))]) :
        x \in (0..MaxFragments) \X BOOLEAN \X (0..MaxLines) \X (0..MaxLines) }

(* One line of n signs with one interpretation each; the next references   *)
(* of interpretation i follow one pattern for the whole line: none, the    *)
(* successor (dangling at the end), the successor in a ring, the first     *)
(* interpretation, itself, or the successor and the first.                 *)
NextChoices(pattern, i, n) ==
    CASE pattern = "none" -> << >>
      [] pattern = "chain" -> <<i + 1>>
      [] pattern = "ring" -> <<(i % n) + 1>>
      [] pattern = "back" -> <<1>>
      [] pattern = "self" -> <<i>>
      [] pattern = "branch" -> <<i + 1, 1>>

GraphLine(pattern, n) ==
    MkLine(ColI, [i \in 1..n |->
                    [signInterpretations |->
                        <<Interp(IF i % 2 = 1 THEN 1 ELSE 2, i, NextChoices(pattern, i, n))>>]])

GraphDocs ==
    { MkText(<<MkFragment(<<"1">>, <<GraphLine(x[1], x[2])>>)>>) :
        x \in {"none", "chain", "ring", "back", "self", "branch"} \X (1..MaxNodes) }

Docs == LineDocs \cup StructureDocs \cup GraphDocs

(***************************************************************************)
(* The notebook run.  Every cell that serializes first requests the text   *)
(* again and rebinds `text` to the response, which is any document.        *)
(***************************************************************************)
(* text = r.json() of the cell "Transcriptions" *)
Init ==
    /\ text \in Docs
    /\ printed = None
    /\ simplifiedTextObject = None
    /\ pc = "string"

(* cell "Serializing the data to a string":                                *)
(* text = r.json(); print(readFragments(text))                             *)
SerializeToString ==
    /\ pc = "string"
    /\ \E response \in Docs :
          /\ text' = response
          /\ printed' = readFragments(response)
    /\ pc' = "object"
    /\ UNCHANGED simplifiedTextObject

(* cell "Serializing the data to a simpler object":                        *)
(* text = r.json(); simplifiedTextObject = {}; the loops                   *)
SerializeToObject ==
    /\ pc = "object"
    /\ \E response \in Docs :
          /\ text' = response
          /\ simplifiedTextObject' = SimplifiedTextObject(response)
    /\ pc' = "done"
    /\ UNCHANGED printed

Next == SerializeToString \/ SerializeToObject

Spec == Init /\ [][Next]_vars

(***************************************************************************)
(* Vocabulary of the properties.                                           *)
(***************************************************************************)
(* the string cell has run last: text is the document it printed *)
Printed == pc = "object"

(* the object cell has run last: text is the document of the tree *)
Produced == pc = "done"

(* both cells have run and the string cell printed the same document *)
ProducedBoth == Produced /\ printed = readFragments(text)

Fragments == text.textFragments

(* the pairs <<f, l>>: line l of fragment f of the document *)
LineIndexes ==
    UNION { { <<f, l>> : l \in DOMAIN Fragments[f].lines } : f \in DOMAIN Fragments }

LineAt(x) == Fragments[x[1]].lines[x[2]]

(* fragment f is the last one of the document that carries its name *)
LastOfName(f) ==
    \A g \in DOMAIN Fragments :
        Fragments[g].textFragmentName = Fragments[f].textFragmentName => g <= f

(* the sequence that the tree holds for line l of fragment f *)
TreeSequence(f, l) ==
    simplifiedTextObject[Fragments[f].textFragmentName][l][Fragments[f].lines[l].lineName]

Has(signInterpretation, id) ==
    \E i \in DOMAIN signInterpretation.attributes :
        signInterpretation.attributes[i].attributeValueId = id

(* concatenation of a sequence of sequences *)
RECURSIVE Flat(_)
Flat(ss) == IF ss = << >> THEN << >> ELSE Head(ss) \o Flat(Tail(ss))

(* every interpretation of a line: Sign order, then listed order *)
Interpretations(line) ==
    Flat([i \in DOMAIN line.signs |-> line.signs[i].signInterpretations])

Survives(signInterpretation) == ~Has(signInterpretation, 20)

(* what one surviving interpretation contributes *)
Contribution(signInterpretation) ==
    CASE Has(signInterpretation, 1) -> signInterpretation.character
      [] Has(signInterpretation, 2) /\ ~Has(signInterpretation, 1) -> <<" ">>
      [] OTHER -> << >>

Contributes(signInterpretation) ==
    Survives(signInterpretation)
        /\ (Has(signInterpretation, 1) \/ Has(signInterpretation, 2))

(* the document with every line replaced by Change(line) *)
MapLines(t, Change(_)) ==
    [textFragments |->
        [f \in DOMAIN t.textFragments |->
            [textFragmentName |-> t.textFragments[f].textFragmentName,
             lines |-> [l \in DOMAIN t.textFragments[f].lines |->
                           Change(t.textFragments[f].lines[l])]]]]

(* the line with every sign's interpretations replaced by Change(list) *)
MapSigns(line, Change(_)) ==
    [lineName |-> line.lineName,
     signs |-> [i \in DOMAIN line.signs |->
                  [signInterpretations |-> Change(line.signs[i].signInterpretations)]]]

(* the line with every interpretation replaced by Change(interpretation) *)
MapInterpretations(line, Change(_)) ==
    LET Each(list) == [i \in DOMAIN list |-> Change(list[i])]
    IN MapSigns(line, Each)

SomeInterpretation(P(_)) ==
    \E x \in LineIndexes :
        \E i \in DOMAIN Interpretations(LineAt(x)) : P(Interpretations(LineAt(x))[i])

(***************************************************************************)
(* C1: with the default filter an interpretation that carries              *)
(* attribute-value id 20 contributes nothing to either output, whatever    *)
(* other attributes it carries: the printed text and the tree are those of *)
(* the document from which every such interpretation has been removed.     *)
(***************************************************************************)
WithoutReconstructed(t) ==
    LET Keep(list) == SelectSeq(list, Survives)
        Change(line) == MapSigns(line, Keep)
    IN MapLines(t, Change)

C1_ReconstructedContributesNothing ==
    /\ Printed => printed = readFragments(WithoutReconstructed(text))
    /\ Produced => simplifiedTextObject = SimplifiedTextObject(WithoutReconstructed(text))

C1_Witness ==
    LET RLetter(si) == Has(si, 20) /\ Has(si, 1) /\ si.character # << >>
        RSpace(si) == Has(si, 20) /\ Has(si, 2)
    IN ProducedBoth /\ SomeInterpretation(RLetter) /\ SomeInterpretation(RSpace)

(***************************************************************************)
(* C2: the text readSigns appends for a line is the in-order               *)
(* concatenation, over the interpretations that survive the filter, of     *)
(* the character of a LETTER, one space for a SPACE and nothing otherwise. *)
(***************************************************************************)
ExpectedText(line) ==
    LET survivors == SelectSeq(Interpretations(line), Survives)
    IN Flat([i \in DOMAIN survivors |-> Contribution(survivors[i])])

C2_ReadSignsAppendsContributions ==
    \A x \in LineIndexes :
        \A before \in {<< >>, <<":", "\n">>} :
            readSigns(LineAt(x), before) = before \o ExpectedText(LineAt(x))

C2_Witness ==
    /\ Printed
    /\ \E x \in LineIndexes :
          LET is == Interpretations(LineAt(x)) IN
          /\ Len(is) = 3
          /\ Has(is[1], 1) /\ Survives(is[1])
          /\ Has(is[2], 2) /\ Survives(is[2])
          /\ Has(is[3], 1) /\ Has(is[3], 20)
          /\ readSigns(LineAt(x), << >>) = <<"k", " ">>

(***************************************************************************)
(* C3: (as claimed) the serializers traverse exactly one interpretation    *)
(* per Sign, the first listed one: the outputs are those of the document   *)
(* in which every Sign keeps only its first interpretation.                *)
(***************************************************************************)
PrimaryOnly(t) ==
    LET First(list) == IF list = << >> THEN << >> ELSE <<Head(list)>>
        Change(line) == MapSigns(line, First)
    IN MapLines(t, Change)

C3_OneInterpretationPerSign ==
    /\ Printed => printed = readFragments(PrimaryOnly(text))
    /\ Produced => simplifiedTextObject = SimplifiedTextObject(PrimaryOnly(text))

(***************************************************************************)
(* C3 (amended): the serializers traverse every interpretation of every    *)
(* Sign, in Sign order and within a Sign in listed order; the sequence the *)
(* tree holds for a line is the concatenation, Sign by Sign, of one        *)
(* element per interpretation of the Sign that is not reconstructed and is *)
(* a LETTER or a SPACE, so a Sign with k such interpretations gives k      *)
(* elements.                                                               *)
(***************************************************************************)
SignElements(sign) ==
    LET chosen == SelectSeq(sign.signInterpretations, Contributes)
    IN [i \in DOMAIN chosen |-> Contribution(chosen[i])]

C3_EveryInterpretationTraversed ==
    Produced =>
        \A x \in LineIndexes :
            LastOfName(x[1]) =>
                TreeSequence(x[1], x[2]) =
                    Flat([i \in DOMAIN LineAt(x).signs |-> SignElements(LineAt(x).signs[i])])

C3_Witness ==
    /\ Produced
    /\ \E x \in LineIndexes :
          /\ LastOfName(x[1])
          /\ \E i \in DOMAIN LineAt(x).signs : Len(SignElements(LineAt(x).signs[i])) >= 2
          /\ Len(TreeSequence(x[1], x[2])) > Len(LineAt(x).signs)

(***************************************************************************)
(* C4: both serializers filter and classify alike: the concatenation of    *)
(* the elements the tree loop collects for a line is the text readSigns    *)
(* appends for that line, for every line of the document and for every     *)
(* line sequence found in the tree.                                        *)
(***************************************************************************)
C4_SerializersAgree ==
    /\ \A x \in LineIndexes :
          Flat(LineObject(LineAt(x))[LineAt(x).lineName]) = readSigns(LineAt(x), << >>)
    /\ Produced =>
          \A x \in LineIndexes :
              LastOfName(x[1]) =>
                  Flat(TreeSequence(x[1], x[2])) = readSigns(LineAt(x), << >>)

C4_Witness ==
    LET PlainSpace(si) == Contributes(si) /\ ~Has(si, 1) IN
    /\ Produced
    /\ \E x \in LineIndexes :
          /\ LastOfName(x[1])
          /\ Len(TreeSequence(x[1], x[2])) >= 2
          /\ \E i \in DOMAIN Interpretations(LineAt(x)) :
                PlainSpace(Interpretations(LineAt(x))[i])
          /\ \E i \in DOMAIN Interpretations(LineAt(x)) :
                ~Survives(Interpretations(LineAt(x))[i])

(***************************************************************************)
(* C5: (as claimed) the sequence of a line has one position per Sign of    *)
(* the source line, a Sign whose interpretations are all filtered away     *)
(* holding an empty contribution.                                          *)
(***************************************************************************)
C5_OnePositionPerSign ==
    Produced =>
        \A x \in LineIndexes :
            LastOfName(x[1]) => Len(TreeSequence(x[1], x[2])) = Len(LineAt(x).signs)

(***************************************************************************)
(* C5 (amended): a Sign whose every interpretation is filtered away        *)
(* occupies no position: the tree is the tree of the document without      *)
(* these Signs, and the sequence of a line has one element per             *)
(* interpretation that passes the filter as LETTER or SPACE.               *)
(***************************************************************************)
FilteredAway(sign) ==
    \A i \in DOMAIN sign.signInterpretations : ~Contributes(sign.signInterpretations[i])

WithoutFilteredSigns(t) ==
    LET Alive(sign) == ~FilteredAway(sign)
        Change(line) == [lineName |-> line.lineName, signs |-> SelectSeq(line.signs, Alive)]
    IN MapLines(t, Change)

C5_FilteredSignHasNoPosition ==
    Produced =>
        /\ simplifiedTextObject = SimplifiedTextObject(WithoutFilteredSigns(text))
        /\ \A x \in LineIndexes :
              LastOfName(x[1]) =>
                  Len(TreeSequence(x[1], x[2])) =
                      Len(SelectSeq(Interpretations(LineAt(x)), Contributes))

C5_Witness ==
    /\ Produced
    /\ \E x \in LineIndexes :
          /\ LastOfName(x[1])
          /\ \E i \in DOMAIN LineAt(x).signs :
                /\ FilteredAway(LineAt(x).signs[i])
                /\ i < Len(LineAt(x).signs)
          /\ Len(TreeSequence(x[1], x[2])) >= 1
          /\ Len(TreeSequence(x[1], x[2])) < Len(LineAt(x).signs)

(***************************************************************************)
(* C6: the tree maps the display name of every text fragment to a          *)
(* sequence with exactly one entry per Line of that fragment, in Line      *)
(* order, each entry keyed by the Line's display name and holding the      *)
(* Line's filtered characters and spaces; no Line or fragment of the       *)
(* input is lost from the tree.                                            *)
(***************************************************************************)
ExpectedElements(line) ==
    LET chosen == SelectSeq(Interpretations(line), Contributes)
    IN [i \in DOMAIN chosen |-> Contribution(chosen[i])]

FragmentInTree(f) ==
    LET name == Fragments[f].textFragmentName IN
    /\ name \in DOMAIN simplifiedTextObject
    /\ Len(simplifiedTextObject[name]) = Len(Fragments[f].lines)
    /\ \A l \in DOMAIN Fragments[f].lines :
          /\ DOMAIN simplifiedTextObject[name][l] = {Fragments[f].lines[l].lineName}
          /\ simplifiedTextObject[name][l][Fragments[f].lines[l].lineName]
                 = ExpectedElements(Fragments[f].lines[l])

C6_TreeHoldsEveryFragmentAndLine ==
    Produced =>
        /\ DOMAIN simplifiedTextObject =
               {Fragments[f].textFragmentName : f \in DOMAIN Fragments}
        /\ \A f \in DOMAIN Fragments : FragmentInTree(f)

(***************************************************************************)
(* C7: the text readFragments returns is, fragment by fragment in input    *)
(* order, the fragment's header followed by, line by line in the           *)
(* fragment's order, the line's header, the line's own sign text and       *)
(* exactly one line separator.                                             *)
(***************************************************************************)
LineBlock(line) == LineHeader(line) \o ExpectedText(line) \o <<"\n">>

FragmentBlock(textFragment) ==
    FragmentHeader(textFragment)
        \o Flat([l \in DOMAIN textFragment.lines |-> LineBlock(textFragment.lines[l])])

C7_PlainTextLayout ==
    Printed =>
        printed = Flat([f \in DOMAIN Fragments |-> FragmentBlock(Fragments[f])])

C7_Witness ==
    /\ Printed
    /\ Len(Fragments) >= 2
    /\ \E f \in DOMAIN Fragments :
          /\ f < Len(Fragments)
          /\ Len(Fragments[f].lines) >= 2
          /\ \E l \in DOMAIN Fragments[f].lines :
                /\ l < Len(Fragments[f].lines)
                /\ ExpectedText(Fragments[f].lines[l]) # << >>
          /\ Fragments[f].lines[Len(Fragments[f].lines)].signs = << >>

(***************************************************************************)
(* C8: attributes whose attributeValueId is none of 1, 2 and 20 never      *)
(* change the result: the printed text and the tree are those of the       *)
(* document from which every such attribute has been removed, so two       *)
(* documents that differ only in such attributes give the same outputs.    *)
(***************************************************************************)
WithoutUnrecognized(t) ==
    LET Tested(a) == a.attributeValueId \in {1, 2, 20}
        Strip(si) == [si EXCEPT !.attributes = SelectSeq(@, Tested)]
        Change(line) == MapInterpretations(line, Strip)
    IN MapLines(t, Change)

C8_UnrecognizedAttributesIgnored ==
    /\ Printed => printed = readFragments(WithoutUnrecognized(text))
    /\ Produced => simplifiedTextObject = SimplifiedTextObject(WithoutUnrecognized(text))

C8_Witness ==
    LET Other(si) == \E i \in DOMAIN si.attributes :
                        si.attributes[i].attributeValueId \notin {1, 2, 20}
        LetterAndOther(si) == Contributes(si) /\ Has(si, 1) /\ Other(si)
        SpaceAndOther(si) == Contributes(si) /\ ~Has(si, 1) /\ Other(si)
        OnlyOther(si) == ~Has(si, 1) /\ ~Has(si, 2) /\ ~Has(si, 20)
    IN /\ ProducedBoth
       /\ WithoutUnrecognized(text) # text
       /\ SomeInterpretation(LetterAndOther)
       /\ SomeInterpretation(SpaceAndOther)
       /\ SomeInterpretation(OnlyOther)

(***************************************************************************)
(* The next-interpretation graph of a line.                                *)
(***************************************************************************)
Ids(line) ==
    LET is == Interpretations(line)
    IN {is[i].signInterpretationId : i \in DOMAIN is}

(* the pairs <<a, b>>: interpretation a of the line references b *)
Edges(line) ==
    LET is == Interpretations(line)
    IN UNION { {<<is[i].signInterpretationId, is[i].nextSignInterpretations[j]>> :
                    j \in DOMAIN is[i].nextSignInterpretations} : i \in DOMAIN is }

(* the interpretations reached from the set S over the edges E, in at     *)
(* most n further steps                                                    *)
RECURSIVE Closure(_, _, _)
Closure(E, S, n) ==
    LET step == S \cup {e[2] : e \in {d \in E : d[1] \in S}}
    IN IF n = 0 \/ step = S THEN S ELSE Closure(E, step, n - 1)

(* the references that resolve to an interpretation of the line *)
Resolved(line) == {e \in Edges(line) : e[2] \in Ids(line)}

HasCycle(line) ==
    LET E == Resolved(line)
    IN \E e \in E : e[1] \in Closure(E, {e[2]}, Cardinality(E))

SomeLineHasCycle == \E x \in LineIndexes : HasCycle(LineAt(x))

(***************************************************************************)
(* C9: (as claimed) when the next references of a line contain a cycle,    *)
(* processing fails before any output is produced: no text and no tree is  *)
(* returned for the document.                                              *)
(***************************************************************************)
C9_CycleProducesNoOutput ==
    SomeLineHasCycle => pc = "string" /\ printed = None

(***************************************************************************)
(* C9 (amended): a cycle in the next references of a line does not make    *)
(* processing fail: the serializers never read nextSignInterpretations,    *)
(* and for a document with a cyclic line they return the text and the      *)
(* tree of the same document with every next reference removed.            *)
(***************************************************************************)
WithoutNextReferences(t) ==
    LET Clear(si) == [si EXCEPT !.nextSignInterpretations = << >>]
        Change(line) == MapInterpretations(line, Clear)
    IN MapLines(t, Change)

C9_CycleIsIgnored ==
    SomeLineHasCycle =>
        /\ Printed =>
              printed # None /\ printed = readFragments(WithoutNextReferences(text))
        /\ Produced =>
              simplifiedTextObject = SimplifiedTextObject(WithoutNextReferences(text))

C9_Witness ==
    /\ ProducedBoth
    /\ \E x \in LineIndexes :
          /\ HasCycle(LineAt(x))
          /\ Len(LineAt(x).signs) >= 2
          /\ \A e \in Edges(LineAt(x)) : e[1] # e[2]
          /\ readSigns(LineAt(x), << >>) # << >>

====
